---------------------------- MODULE Spec2Model ----------------------------
(***************************************************************************)
(* Model of src/src/main.c: the zlib round-trip / libpng version demo.     *)
(*                                                                         *)
(* main() is straight-line code around three external calls: compress,    *)
(* uncompress (zlib) and png_access_version_number (libpng).  The state is *)
(* main's locals, the two output streams, the list of external calls made  *)
(* and the process exit status; one action per step of the pipeline        *)
(* (Compressing, Decompressing, ReportingVersion).                         *)
(*                                                                         *)
(* Two environments are given for the external calls:                      *)
(*   Spec          the linked zlib routines, modelled as the RFC 1950/1951 *)
(*                 codec they implement, with any status code injectable   *)
(*                 as a failure, and any runtime version number;           *)
(*   SpecContract  the routines known only by their interface contract:    *)
(*                 on success they report any length that fits the         *)
(*                 capacity they were given.                               *)
(***************************************************************************)
EXTENDS Integers, Sequences, FiniteSets, TLC

VARIABLES pc, text, compressed, decompressed, compressedSize,
          decompressedSize, png_runtime_ver, out, err, calls, exitStatus,
          termIndex, ub

vars == <<pc, text, compressed, decompressed, compressedSize,
          decompressedSize, png_runtime_ver, out, err, calls, exitStatus,
          termIndex, ub>>

(***************************************************************************)
(* Bounds of the model.                                                    *)
(***************************************************************************)
\* Largest runtime version number png_access_version_number may return.
MaxVersion == 100
\* How far past a capacity the length an interface-level routine needs may go.
MaxExcess == 2

(***************************************************************************)
(* Program constants.                                                      *)
(***************************************************************************)
\* sizeof(compressed), main.c:32
CompressedCapacity == 100
\* sizeof(decompressed), main.c:33
DecompressedCapacity == 100

\* zlib.h status codes (main.c compares against Z_OK only).
Z_OK == 0
Z_STREAM_END == 1
Z_NEED_DICT == 2
Z_ERRNO == -1
Z_STREAM_ERROR == -2
Z_DATA_ERROR == -3
Z_MEM_ERROR == -4
Z_BUF_ERROR == -5
Z_VERSION_ERROR == -6

ZStatus == {Z_OK, Z_STREAM_END, Z_NEED_DICT, Z_ERRNO, Z_STREAM_ERROR,
            Z_DATA_ERROR, Z_MEM_ERROR, Z_BUF_ERROR, Z_VERSION_ERROR}

\* A cell of a stack buffer that was never written.
Uninit == -1

\* "Hello from zlib via conda forge!" with the literal's terminating NUL.
TextLiteral ==
    <<72, 101, 108, 108, 111, 32, 102, 114, 111, 109, 32, 122, 108, 105, 98,
      32, 118, 105, 97, 32, 99, 111, 110, 100, 97, 32, 102, 111, 114, 103,
      101, 33, 0>>

(***************************************************************************)
(* C string helpers.                                                       *)
(***************************************************************************)
RECURSIVE StrlenFrom(_, _)
StrlenFrom(mem, i) ==
    IF i > Len(mem) \/ mem[i] = 0 THEN i - 1 ELSE StrlenFrom(mem, i + 1)

\* strlen(): the number of bytes before the first NUL.
Strlen(mem) == StrlenFrom(mem, 1)

\* What printf("%s") reads: the bytes before the first NUL.
CString(mem) == SubSeq(mem, 1, Strlen(mem))

RECURSIVE DigitsOf(_)
DigitsOf(n) ==
    IF n < 10 THEN <<48 + n>> ELSE Append(DigitsOf(n \div 10), 48 + (n % 10))

\* printf("%lu"): the decimal digits, as ASCII.
FormatULong(n) == DigitsOf(n)

(***************************************************************************)
(* The zlib codec (RFC 1950 container, RFC 1951 fixed-Huffman block,       *)
(* Adler-32 trailer).  The demo text has no repeated three-byte substring, *)
(* so deflate emits literals only; the encoder below covers that fragment. *)
(***************************************************************************)
RECURSIVE BitsMSB(_, _)
\* The n low bits of v, most significant first (how Huffman codes are packed).
BitsMSB(v, n) ==
    IF n = 0 THEN <<>> ELSE Append(BitsMSB(v \div 2, n - 1), v % 2)

\* Fixed Huffman code of a literal byte (RFC 1951, 3.2.6).
LiteralCode(b) ==
    IF b < 144 THEN BitsMSB(48 + b, 8) ELSE BitsMSB(400 + (b - 144), 9)

RECURSIVE LiteralBits(_, _)
LiteralBits(src, i) ==
    IF i > Len(src) THEN <<>>
    ELSE LiteralCode(src[i]) \o LiteralBits(src, i + 1)

\* BFINAL = 1, BTYPE = 01 (fixed Huffman), the literals, end-of-block (7 zeros).
DeflateBits(src) ==
    <<1, 1, 0>> \o LiteralBits(src, 1) \o <<0, 0, 0, 0, 0, 0, 0>>

BitAt(bits, i) == IF i <= Len(bits) THEN bits[i] ELSE 0

\* Bits are packed into bytes starting at the least significant bit.
PackByte(bits, k) ==
    BitAt(bits, 8 * k + 1) + 2 * BitAt(bits, 8 * k + 2)
    + 4 * BitAt(bits, 8 * k + 3) + 8 * BitAt(bits, 8 * k + 4)
    + 16 * BitAt(bits, 8 * k + 5) + 32 * BitAt(bits, 8 * k + 6)
    + 64 * BitAt(bits, 8 * k + 7) + 128 * BitAt(bits, 8 * k + 8)

PackBits(bits) ==
    [k \in 1..((Len(bits) + 7) \div 8) |-> PackByte(bits, k - 1)]

RECURSIVE AdlerA(_, _)
AdlerA(src, n) ==
    IF n = 0 THEN 1 ELSE (AdlerA(src, n - 1) + src[n]) % 65521

RECURSIVE AdlerB(_, _)
AdlerB(src, n) ==
    IF n = 0 THEN 0 ELSE (AdlerB(src, n - 1) + AdlerA(src, n)) % 65521

\* The Adler-32 checksum, as its four bytes in network order.
Adler32Bytes(src) ==
    LET a == AdlerA(src, Len(src))
        b == AdlerB(src, Len(src))
    IN  <<b \div 256, b % 256, a \div 256, a % 256>>

\* The zlib stream compress() produces at the default level: CMF = 0x78,
\* FLG = 0x9C, the deflate data, the Adler-32 of the uncompressed bytes.
ZlibStream(src) ==
    <<120, 156>> \o PackBits(DeflateBits(src)) \o Adler32Bytes(src)


Bit(byte, j) == (byte \div (2 ^ j)) % 2

\* The bit stream of a byte sequence: bit 0 of each byte first.
UnpackBits(bytes) ==
    [i \in 1..(8 * Len(bytes)) |-> Bit(bytes[((i - 1) \div 8) + 1], (i - 1) % 8)]

RECURSIVE CodeAt(_, _, _)
\* The n bits from position p read as a Huffman code (first bit most significant).
CodeAt(bits, p, n) ==
    IF n = 0 THEN 0 ELSE 2 * CodeAt(bits, p, n - 1) + bits[p + n - 1]

RECURSIVE InflateFrom(_, _, _)
\* Decodes fixed-Huffman symbols from bit position p on; acc is the output so
\* far.  ok = FALSE on input that ends early or that leaves the literal-only
\* fragment (a length symbol); otherwise next is the position after
\* end-of-block.
InflateFrom(bits, p, acc) ==
    IF p + 6 > Len(bits) THEN [ok |-> FALSE, data |-> acc, next |-> p]
    ELSE IF CodeAt(bits, p, 7) = 0
         THEN [ok |-> TRUE, data |-> acc, next |-> p + 7]
    ELSE IF CodeAt(bits, p, 7) <= 23
         THEN [ok |-> FALSE, data |-> acc, next |-> p]
    ELSE IF p + 7 > Len(bits) THEN [ok |-> FALSE, data |-> acc, next |-> p]
    ELSE IF CodeAt(bits, p, 8) <= 191
         THEN InflateFrom(bits, p + 8, Append(acc, CodeAt(bits, p, 8) - 48))
    ELSE IF CodeAt(bits, p, 8) <= 199
         THEN [ok |-> FALSE, data |-> acc, next |-> p]
    ELSE IF p + 8 > Len(bits) THEN [ok |-> FALSE, data |-> acc, next |-> p]
    ELSE InflateFrom(bits, p + 9, Append(acc, CodeAt(bits, p, 9) - 400 + 144))

\* The zlib header is valid: deflate, window <= 32K, check bits, no dictionary.
HeaderOK(stream) ==
    /\ Len(stream) >= 2
    /\ stream[1] % 16 = 8
    /\ stream[1] \div 16 <= 7
    /\ (256 * stream[1] + stream[2]) % 31 = 0
    /\ (stream[2] \div 32) % 2 = 0

\* inflate of a whole zlib stream: the header, one final fixed-Huffman block,
\* the Adler-32 trailer at the next byte boundary.  Bytes after the trailer
\* are ignored, as inflate stops at the end of the stream.
\* On an error, data is what was decoded before it showed.
ZlibInflate(stream) ==
    IF ~HeaderOK(stream) THEN [status |-> Z_DATA_ERROR, data |-> <<>>]
    ELSE LET body == SubSeq(stream, 3, Len(stream))
             bits == UnpackBits(body)
         IN  IF Len(bits) < 3 \/ SubSeq(bits, 1, 3) # <<1, 1, 0>>
             THEN [status |-> Z_DATA_ERROR, data |-> <<>>]
             ELSE LET d == InflateFrom(bits, 4, <<>>)
                      used == (d.next + 6) \div 8
                  IN  IF ~d.ok \/ used + 4 > Len(body)
                      THEN [status |-> Z_DATA_ERROR, data |-> d.data]
                      ELSE IF SubSeq(body, used + 1, used + 4) # Adler32Bytes(d.data)
                      THEN [status |-> Z_DATA_ERROR, data |-> d.data]
                      ELSE [status |-> Z_OK, data |-> d.data]

(***************************************************************************)
(* The library entry points as main calls them.  A result is the status    *)
(* returned, the bytes written to dest, the value left in *destLen, and    *)
(* the capacity the routine was given (the value of *destLen on entry).    *)
(* fault is an injected status: Z_OK lets the routine run; any other value *)
(* is returned at once, before anything is written (out of memory, a       *)
(* mocked failure).  A routine never writes more than the capacity it was  *)
(* given: output that does not fit is cut there and reported as            *)
(* Z_BUF_ERROR.                                                            *)
(***************************************************************************)
Result(status, data, limit) ==
    [status |-> status, data |-> data, destLen |-> Len(data), limit |-> limit]

Fault(status, limit) ==
    [status |-> status, data |-> <<>>, destLen |-> limit, limit |-> limit]

\* compress(dest, &destLen, source, sourceLen)
compress(destLen, source, sourceLen, fault) ==
    IF fault # Z_OK THEN Fault(fault, destLen)
    ELSE LET stream == ZlibStream(SubSeq(source, 1, sourceLen))
         IN  IF Len(stream) > destLen
             THEN Result(Z_BUF_ERROR, SubSeq(stream, 1, destLen), destLen)
             ELSE Result(Z_OK, stream, destLen)

\* uncompress(dest, &destLen, source, sourceLen)
uncompress(destLen, source, sourceLen, fault) ==
    IF fault # Z_OK THEN Fault(fault, destLen)
    ELSE LET r == ZlibInflate(SubSeq(source, 1, sourceLen))
         IN  IF Len(r.data) > destLen
             THEN Result(Z_BUF_ERROR, SubSeq(r.data, 1, destLen), destLen)
             ELSE Result(r.status, r.data, destLen)

\* The same entry points known only by their contract: the routine needs
\* `need` bytes of output (here: copies of `fill`); it writes them when they
\* fit in destLen, and otherwise fills dest and fails with Z_BUF_ERROR.
ContractCall(destLen, need, fill, fault) ==
    IF fault # Z_OK THEN Fault(fault, destLen)
    ELSE IF need > destLen
    THEN Result(Z_BUF_ERROR, [i \in 1..destLen |-> fill], destLen)
    ELSE Result(Z_OK, [i \in 1..need |-> fill], destLen)

(***************************************************************************)
(* main()                                                                  *)
(***************************************************************************)
\* exitStatus while main has not returned.
Running == -1
\* The status the shell sees of a process killed by abort() (128 + SIGABRT).
AbortStatus == 134
\* The status a sanitizer's runtime exits with after its report.
SanitizerStatus == 1

\* One printed line: its format string and the bytes of its argument.
Line(fmt, arg) == [fmt |-> fmt, arg |-> arg]

\* One external call made: the routine, the output capacity it was given (0 for
\* the version query, which takes none) and what it returned.
Call(fn, limit, ret) == [fn |-> fn, limit |-> limit, ret |-> ret]

\* The bytes a trashed `text` pointer leads to.
Garbage == <<Uninit>>

\* What the store to decompressed[100] may do.  The index is one past the
\* array, so the behaviour is undefined: the byte may land in padding, on the
\* first byte of the neighbouring array, on the `text` pointer, or a checked
\* build may stop the process at the store (abort, or a sanitizer's report
\* and exit).
UBOutcomes ==
    {"padding", "clobber_compressed", "clobber_text", "abort", "sanitizer"}

\* unsigned char compressed[100]; unsigned char decompressed[100];
EmptyBuffer(capacity) == [i \in 1..capacity |-> Uninit]

\* The routine's writes: data at the start of the buffer, the rest untouched.
WriteBuf(buf, data) ==
    [i \in 1..Len(buf) |-> IF i <= Len(data) THEN data[i] ELSE buf[i]]

\* A plausible slip: the size of both arrays.
InitCompressedSizeBothArrays == CompressedCapacity + DecompressedCapacity

\* uLong compressedSize = sizeof(compressed);
InitCompressedSize == CompressedCapacity

\* uLong decompressedSize = sizeof(decompressed);
InitDecompressedSize == DecompressedCapacity

\* A plausible slip: sizeof(text), the size of the pointer.
SourceLenSizeofPointer(t) == 8

\* strlen(text), the source length handed to compress
SourceLen(t) == Strlen(t)

\* compressed, compressedSize: the source handed to uncompress
UncompressSourceLen(size) == size

\* A plausible slip: compress(...) < 0.
CompressFailedNegativeOnly(status) == status < 0

\* A plausible slip: compress(...) == Z_BUF_ERROR.
CompressFailedBufOnly(status) == status = Z_BUF_ERROR

\* compress(...) != Z_OK
CompressFailed(status) == status # Z_OK

\* A plausible slip: uncompress(...) < 0.
UncompressFailedNegativeOnly(status) == status < 0

\* A plausible slip: uncompress(...) == Z_DATA_ERROR.
UncompressFailedDataOnly(status) == status = Z_DATA_ERROR

\* uncompress(...) != Z_OK
UncompressFailed(status) == status # Z_OK

\* A plausible slip: png_runtime_ver < 0, never true of an unsigned long.
VersionFailedIfNegative(v) == v < 0

\* png_runtime_ver == 0
VersionFailed(v) == v = 0

\* A plausible slip: the terminator at decompressed[decompressedSize - 1].
TerminatorIndexLastByte(size) == size - 1

\* The index of decompressed[decompressedSize] = '\0'
TerminatorIndex(size) == size

\* The two streams, standard output and standard error.
Streams(o, e) == [out |-> o, err |-> e]

\* A plausible slip: fprintf(stderr, "Fehler bei compress()\n").
CompressErrorToStderr(o, e) ==
    Streams(o, Append(e, Line("Fehler bei compress()", <<>>)))

\* printf("Fehler bei compress()\n");
CompressError(o, e) ==
    Streams(Append(o, Line("Fehler bei compress()", <<>>)), e)

\* printf("Fehler bei uncompress()\n");
UncompressError(o, e) ==
    Streams(Append(o, Line("Fehler bei uncompress()", <<>>)), e)

\* fprintf(stderr, "Fehler: libpng Runtime-Version konnte nicht ermittelt werden!\n");
VersionError(o, e) ==
    Streams(o, Append(e,
        Line("Fehler: libpng Runtime-Version konnte nicht ermittelt werden!",
             <<>>)))

Init ==
    /\ pc = "Compressing"
    /\ text = TextLiteral
    /\ compressed = EmptyBuffer(CompressedCapacity)
    /\ decompressed = EmptyBuffer(DecompressedCapacity)
    /\ compressedSize = InitCompressedSize
    /\ decompressedSize = InitDecompressedSize
    /\ png_runtime_ver = Uninit
    /\ out = <<>>
    /\ err = <<>>
    /\ calls = <<>>
    /\ exitStatus = Running
    /\ termIndex = Uninit
    /\ ub = "none"

\* main.c:39-44.  r is what compress returned and wrote.
MainCompress(r) ==
    /\ pc = "Compressing"
    /\ calls' = Append(calls, Call("compress", r.limit, r.status))
    /\ compressed' = WriteBuf(compressed, r.data)
    /\ compressedSize' = r.destLen
    /\ IF CompressFailed(r.status)
       THEN /\ out' = CompressError(out, err).out
            /\ err' = CompressError(out, err).err
            /\ exitStatus' = 1
            /\ pc' = "Failed"
       ELSE /\ pc' = "Decompressing"
            /\ UNCHANGED <<out, err, exitStatus>>
    /\ UNCHANGED <<text, decompressed, decompressedSize, png_runtime_ver,
                   termIndex, ub>>

\* main.c:53-56 with the terminator inside the array.
TerminateAndPrint(buf, size) ==
    /\ decompressed' = [buf EXCEPT ![TerminatorIndex(size) + 1] = 0]
    /\ out' = out \o <<Line("Original:     %s", CString(text)),
                       Line("Dekomprimiert: %s", CString(decompressed'))>>
    /\ pc' = "ReportingVersion"
    /\ UNCHANGED <<text, compressed, exitStatus, err, ub>>

\* main.c:53-56 with the terminator outside the array: undefined behaviour,
\* resolved by `outcome`.
OverrunAndPrint(buf) ==
    \E outcome \in UBOutcomes :
    /\ decompressed' = buf
    /\ ub' = outcome
    /\ IF outcome \in {"abort", "sanitizer"}
       THEN /\ err' = Append(err, Line(outcome, <<>>))
            /\ exitStatus' = IF outcome = "abort" THEN AbortStatus
                                                  ELSE SanitizerStatus
            /\ pc' = "Aborted"
            /\ UNCHANGED <<text, compressed, out>>
       ELSE /\ text' = IF outcome = "clobber_text" THEN Garbage ELSE text
            /\ compressed' = IF outcome = "clobber_compressed"
                             THEN [compressed EXCEPT ![1] = 0]
                             ELSE compressed
            /\ out' = out \o <<Line("Original:     %s", CString(text')),
                               Line("Dekomprimiert: %s", CString(buf))>>
            /\ pc' = "ReportingVersion"
            /\ UNCHANGED <<exitStatus, err>>

\* main.c:46-56.  r is what uncompress returned and wrote.
MainUncompress(r) ==
    /\ pc = "Decompressing"
    /\ calls' = Append(calls, Call("uncompress", r.limit, r.status))
    /\ decompressedSize' = r.destLen
    /\ IF UncompressFailed(r.status)
       THEN /\ out' = UncompressError(out, err).out
            /\ err' = UncompressError(out, err).err
            /\ exitStatus' = 1
            /\ pc' = "Failed"
            /\ decompressed' = WriteBuf(decompressed, r.data)
            /\ UNCHANGED <<text, compressed, termIndex, ub>>
       ELSE /\ termIndex' = TerminatorIndex(decompressedSize')
            /\ IF termIndex' < DecompressedCapacity
               THEN TerminateAndPrint(WriteBuf(decompressed, r.data),
                                      decompressedSize')
               ELSE OverrunAndPrint(WriteBuf(decompressed, r.data))
    /\ UNCHANGED <<compressedSize, png_runtime_ver>>

\* main.c:58-71.  v is what png_access_version_number returned.
MainReportVersion(v) ==
    /\ pc = "ReportingVersion"
    /\ calls' = Append(calls, Call("png_access_version_number", 0, v))
    /\ png_runtime_ver' = v
    /\ IF VersionFailed(v)
       THEN /\ out' = VersionError(
                        out \o <<Line("libpng compile-time version: %s", <<>>),
                                 Line("libpng runtime version (numeric): %lu",
                                      FormatULong(v))>>, err).out
            /\ err' = VersionError(out, err).err
            /\ exitStatus' = 1
            /\ pc' = "Failed"
       ELSE /\ out' = out \o <<Line("libpng compile-time version: %s", <<>>),
                               Line("libpng runtime version (numeric): %lu",
                                    FormatULong(v)),
                               Line("zlib und libpng sind erfolgreich gelinkt und verwendbar.",
                                    <<>>)>>
            /\ exitStatus' = 0
            /\ pc' = "Done"
            /\ UNCHANGED err
    /\ UNCHANGED <<text, compressed, decompressed, compressedSize,
                   decompressedSize, termIndex, ub>>

(***************************************************************************)
(* Spec: main linked against the zlib codec; any status may be injected.   *)
(***************************************************************************)
Versions == 0..MaxVersion

Compress ==
    \E fault \in ZStatus :
        MainCompress(compress(compressedSize, text, SourceLen(text), fault))

Uncompress ==
    \E fault \in ZStatus :
        MainUncompress(uncompress(decompressedSize, compressed,
                                  UncompressSourceLen(compressedSize), fault))

ReportVersion == \E v \in Versions : MainReportVersion(v)

Next == Compress \/ Uncompress \/ ReportVersion

Spec == Init /\ [][Next]_vars

\* main runs to its return: nothing suspends it.
FairSpec == Spec /\ WF_vars(Next)

(***************************************************************************)
(* SpecContract: the zlib routines known by their contract only.           *)
(***************************************************************************)
FillBytes == {0, 65}

VersionSamples == {0, MaxVersion}

\* compress runs: it needs `need` bytes of output.
CompressRuns ==
    \E need \in 0..(CompressedCapacity + MaxExcess) : \E fill \in FillBytes :
        MainCompress(ContractCall(compressedSize, need, fill, Z_OK))

\* compress returns an injected failure status.
CompressFaults ==
    \E fault \in ZStatus \ {Z_OK} :
        MainCompress(ContractCall(compressedSize, 0, 0, fault))

\* uncompress runs: it needs `need` bytes of output.
UncompressRuns ==
    \E need \in 0..(DecompressedCapacity + MaxExcess) : \E fill \in FillBytes :
        MainUncompress(ContractCall(decompressedSize, need, fill, Z_OK))

\* uncompress returns an injected failure status.
UncompressFaults ==
    \E fault \in ZStatus \ {Z_OK} :
        MainUncompress(ContractCall(decompressedSize, 0, 0, fault))

ReportVersionSample == \E v \in VersionSamples : MainReportVersion(v)

NextContract ==
    \/ CompressRuns
    \/ CompressFaults
    \/ UncompressRuns
    \/ UncompressFaults
    \/ ReportVersionSample

SpecContract == Init /\ [][NextContract]_vars

(***************************************************************************)
(* Vocabulary of the properties.                                           *)
(***************************************************************************)
Called(fn) == \E i \in DOMAIN calls : calls[i].fn = fn

\* How often fn was called.
CallCount(fn) == Cardinality({i \in DOMAIN calls : calls[i].fn = fn})

\* What the (first) call of fn returned.
RetOf(fn) == calls[CHOOSE i \in DOMAIN calls : calls[i].fn = fn].ret

CompressOK == Called("compress") /\ RetOf("compress") = Z_OK
CompressBad == Called("compress") /\ RetOf("compress") # Z_OK
UncompressOK == Called("uncompress") /\ RetOf("uncompress") = Z_OK
UncompressBad == Called("uncompress") /\ RetOf("uncompress") # Z_OK
VersionOK ==
    Called("png_access_version_number") /\ RetOf("png_access_version_number") # 0
VersionBad ==
    Called("png_access_version_number") /\ RetOf("png_access_version_number") = 0

Exited == exitStatus # Running

Printed(stream, fmt) == \E i \in DOMAIN stream : stream[i].fmt = fmt

\* The input text: the bytes of the literal before its NUL.
InputText == CString(TextLiteral)

Diagnostics ==
    {"Fehler bei compress()", "Fehler bei uncompress()",
     "Fehler: libpng Runtime-Version konnte nicht ermittelt werden!"}

\* The number of diagnostic lines on both streams.
DiagnosticCount ==
    Cardinality({i \in DOMAIN out : out[i].fmt \in Diagnostics})
    + Cardinality({i \in DOMAIN err : err[i].fmt \in Diagnostics})

(***************************************************************************)
(* C1.  Once main has returned, the exit status is 0 exactly when compress *)
(* returned Z_OK, uncompress returned Z_OK and the runtime version is      *)
(* non-zero; in every other case it is 1.                                  *)
(***************************************************************************)
C1_ExitStatus ==
    Exited =>
        /\ exitStatus \in {0, 1}
        /\ exitStatus = 0 <=> (CompressOK /\ UncompressOK /\ VersionOK)

\* A run on which all three calls succeeded and main returned 0.
C1_Witness ==
    /\ exitStatus = 0
    /\ CompressOK /\ UncompressOK /\ VersionOK

(***************************************************************************)
(* C2.  When compress returns a non-success status, main exits with 1 and  *)
(* neither uncompress nor the version query is ever called, and neither    *)
(* text line nor the success confirmation is printed.                      *)
(***************************************************************************)
C2_CompressFailure ==
    CompressBad =>
        /\ exitStatus = 1
        /\ pc = "Failed"
        /\ ~Called("uncompress")
        /\ ~Called("png_access_version_number")
        /\ ~Printed(out, "Original:     %s")
        /\ ~Printed(out, "Dekomprimiert: %s")
        /\ ~Printed(out, "zlib und libpng sind erfolgreich gelinkt und verwendbar.")

\* compress reported a positive non-success status and main stopped there.
C2_Witness ==
    /\ CompressBad
    /\ RetOf("compress") = Z_STREAM_END
    /\ exitStatus = 1

(***************************************************************************)
(* C3.  When compress succeeds and uncompress returns a non-success        *)
(* status, main exits with 1 without reporting versions: no version line   *)
(* is printed, the version query is never called and the terminator byte   *)
(* is never written.                                                       *)
(***************************************************************************)
C3_UncompressFailure ==
    (CompressOK /\ UncompressBad) =>
        /\ exitStatus = 1
        /\ pc = "Failed"
        /\ ~Called("png_access_version_number")
        /\ ~Printed(out, "libpng compile-time version: %s")
        /\ ~Printed(out, "libpng runtime version (numeric): %lu")
        /\ termIndex = Uninit

\* uncompress reported a positive non-success status after a good compress.
C3_Witness ==
    /\ CompressOK
    /\ UncompressBad
    /\ RetOf("uncompress") = Z_NEED_DICT
    /\ exitStatus = 1

(***************************************************************************)
(* C4.  When compress and uncompress succeed and the runtime version query *)
(* returns 0, main prints the diagnostic to the error stream and exits     *)
(* with 1; the success confirmation is never printed.                      *)
(***************************************************************************)
C4_VersionFailure ==
    (CompressOK /\ UncompressOK /\ VersionBad) =>
        /\ Printed(err, "Fehler: libpng Runtime-Version konnte nicht ermittelt werden!")
        /\ exitStatus = 1
        /\ pc = "Failed"
        /\ ~Printed(out, "zlib und libpng sind erfolgreich gelinkt und verwendbar.")

\* The version query returned 0 and the diagnostic is on the error stream.
C4_Witness ==
    /\ VersionBad
    /\ png_runtime_ver = 0
    /\ Len(err) = 1
    /\ exitStatus = 1

(***************************************************************************)
(* C5.  After uncompress has reported success, the decompressed buffer up  *)
(* to decompressedSize equals the input text: same length, same bytes.     *)
(***************************************************************************)
C5_RoundTrip ==
    UncompressOK =>
        /\ decompressedSize = Len(InputText)
        /\ SubSeq(decompressed, 1, decompressedSize) = InputText

\* uncompress succeeded on the 40-byte stream compress wrote.
C5_Witness ==
    /\ UncompressOK
    /\ compressedSize = 40
    /\ decompressedSize = 32

(***************************************************************************)
(* C6.  The recorded compressed length never exceeds the capacity of the   *)
(* compressed buffer (100), which is the limit compress is given; an       *)
(* output that does not fit is a compression failure with exit status 1,   *)
(* after which the buffer is not read.                                     *)
(***************************************************************************)
C6_CompressedWithinCapacity ==
    /\ compressedSize <= CompressedCapacity
    /\ Called("compress") =>
           calls[1] \in [fn : {"compress"}, limit : {CompressedCapacity},
                         ret : ZStatus]
    /\ (Called("compress") /\ RetOf("compress") = Z_BUF_ERROR) =>
           /\ exitStatus = 1
           /\ pc = "Failed"
           /\ ~Called("uncompress")

\* compress ran out of room after filling the buffer, and main exited with 1.
C6_Witness ==
    /\ Called("compress")
    /\ RetOf("compress") = Z_BUF_ERROR
    /\ pc = "Failed"
    /\ compressed[CompressedCapacity] # Uninit

(***************************************************************************)
(* C7.  When all three calls succeed, standard output is exactly the       *)
(* original text, the decompressed text (equal to the original), the       *)
(* compile-time version, the numeric runtime version and the confirmation, *)
(* in this order; standard error is empty and the exit status is 0.        *)
(***************************************************************************)
C7_SuccessOutput ==
    (Exited /\ CompressOK /\ UncompressOK /\ VersionOK) =>
        /\ out = <<Line("Original:     %s", InputText),
                   Line("Dekomprimiert: %s", InputText),
                   Line("libpng compile-time version: %s", <<>>),
                   Line("libpng runtime version (numeric): %lu",
                        FormatULong(png_runtime_ver)),
                   Line("zlib und libpng sind erfolgreich gelinkt und verwendbar.",
                        <<>>)>>
        /\ err = <<>>
        /\ exitStatus = 0

\* A successful run that printed its five lines, the version with two digits.
C7_Witness ==
    /\ pc = "Done"
    /\ Len(out) = 5
    /\ out[4].arg = <<52, 50>>

(***************************************************************************)
(* C8.  Whenever the terminator byte is written, its index is strictly     *)
(* less than the capacity of the decompressed buffer, for every length     *)
(* uncompress may report on success: the write stays inside the buffer.    *)
(***************************************************************************)
C8_TerminatorInBounds ==
    termIndex # Uninit =>
        /\ termIndex < DecompressedCapacity
        /\ ub = "none"

(***************************************************************************)
(* C9.  The steps run in the order Compressing, Decompressing,             *)
(* ReportingVersion, each once and making its one external call; a failing *)
(* step leads directly to Failed, a passing one to the next step; no step  *)
(* is taken from Done or Failed; and every run ends in Done (exit 0) or    *)
(* Failed (exit 1).                                                        *)
(***************************************************************************)
LastCall(cs) == cs[Len(cs)]

C9_Step ==
    /\ Len(calls') = Len(calls) + 1
    /\ SubSeq(calls', 1, Len(calls)) = calls
    /\ CASE pc = "Compressing" ->
              /\ LastCall(calls').fn = "compress"
              /\ pc' = IF LastCall(calls').ret = Z_OK
                       THEN "Decompressing" ELSE "Failed"
         [] pc = "Decompressing" ->
              /\ LastCall(calls').fn = "uncompress"
              /\ pc' = IF LastCall(calls').ret = Z_OK
                       THEN "ReportingVersion" ELSE "Failed"
         [] pc = "ReportingVersion" ->
              /\ LastCall(calls').fn = "png_access_version_number"
              /\ pc' = IF LastCall(calls').ret # 0 THEN "Done" ELSE "Failed"
         [] OTHER -> FALSE

C9_Terminal ==
    /\ pc = "Done" <=> exitStatus = 0
    /\ pc = "Failed" <=> exitStatus = 1
    /\ pc \in {"Done", "Failed"} <=> Exited
    /\ CallCount("compress") <= 1
    /\ CallCount("uncompress") <= 1
    /\ CallCount("png_access_version_number") <= 1

C9_StateMachine ==
    /\ [][C9_Step]_vars
    /\ []C9_Terminal
    /\ <>(pc \in {"Done", "Failed"})

\* A run that went through all three steps and ended in Failed.
C9_Witness ==
    /\ pc = "Failed"
    /\ Len(calls) = 3

(***************************************************************************)
(* C10.  A failing run prints exactly one diagnostic message and exits     *)
(* with 1; standard error holds one line when the version query failed and *)
(* is empty otherwise, in particular after a compress or uncompress        *)
(* failure.                                                                *)
(***************************************************************************)
C10_Diagnostics ==
    /\ pc = "Failed" => (exitStatus = 1 /\ DiagnosticCount = 1)
    /\ IF VersionBad THEN Len(err) = 1 ELSE err = <<>>
    /\ (CompressBad \/ UncompressBad) => err = <<>>

\* compress failed: its one diagnostic is on standard output.
C10_Witness ==
    /\ pc = "Failed"
    /\ CompressBad
    /\ Len(out) = 1
    /\ err = <<>>

=============================================================================
